---- MODULE Spec2Model ----
(***************************************************************************)
(* A model of the PostgreSQL log parsers of this repository:               *)
(*   src/dayparserz.py  PostgresLogParser (daily buckets and summary)      *)
(*   src/parser.py      parse_log_in_chunks (chunked reader and counter)   *)
(*                                                                         *)
(* Text is a sequence of symbols.  A symbol is a string that stands for    *)
(* itself: one character (" ", ";", "'", "1") or an indivisible run of     *)
(* characters of the log ("2024-01-01", "10:00:01", "statement",           *)
(* "select").  The string operations of the source are computed on these   *)
(* sequences symbol by symbol.                                             *)
(***************************************************************************)
EXTENDS Integers, Sequences, FiniteSets, TLC

VARIABLES
    input,          \* the log file: the lines `for line in f` yields
    pos,            \* number of lines of input already read
    pc,             \* position of parse(): read, finally, flush, close, summary, done (the
                    \* summary is written), cleanup, end, raised; again after a second
                    \* aggregation
    exc,            \* the exception in flight: none, IOError, IndexError
    current_query,  \* None or [timestamp, sql]
    output_files,   \* the file names with a handle in output_files
    closed,         \* file name -> number of close() calls on its handle
    file_buffers,   \* file name -> buffered lines (self.file_buffers)
    files,          \* the working directory: file name -> content
    dates_seen,     \* self.dates_seen
    sql_cache,      \* self.sql_cache: body -> normalized statement
    summary,        \* content of daily_summary.log, NoFile before it is written
    started,        \* history: the records started, in order
    emitted,        \* history: the records handed to buffer_query, in order
    log_file_path,  \* self.log_file_path: the input path as the caller spelled it
    input_exists,   \* the input log file exists
    archive,        \* the archive: file name -> content, NoFile before it is written
    \* one call of normalize_sql (dayparserz.py)
    query_sql,      \* the argument sql of the call (sql names the parameter of the operators)
    normalized,     \* the local variable, None before line 98
    npc,            \* position: query, then in normalize_sql call, string, float, number, space, store, done
    query_norm,     \* the value of normalize_query (parser.py), None before the call
    computed,       \* history: body -> number of times lines 98-101 ran on it
    \* parse_log_in_chunks (parser.py)
    text,           \* the content of the file
    chunk_size,     \* the argument
    fpos,           \* number of symbols of text already read
    line_buffer,    \* the local buffer: the symbols read and not yet cut into lines
    counter,        \* (time, normalized query) -> count
    current_query_list,  \* the local list current_query
    current_time,   \* the local current_time of parse_log_in_chunks
    processed,      \* history: the lines handed to process_line, in order
    ppc             \* position in parse_log_in_chunks: read, done

\* the state of a run of PostgresLogParser.parse, but for the cache
runVars == <<input, pos, pc, exc, current_query, output_files, closed, file_buffers,
             files, dates_seen, summary, started, emitted, log_file_path, input_exists,
             archive>>
dirVars == <<log_file_path, input_exists, archive>>
normVars == <<query_sql, normalized, npc, query_norm, computed>>
parserVars == <<text, chunk_size, fpos, line_buffer, counter, current_query_list,
                current_time, processed, ppc>>
vars == <<runVars, sql_cache, normVars, parserVars>>

\* Python's None, and a file that does not exist
None == [none |-> TRUE]
NoFile == [exists |-> FALSE]

(***************************************************************************)
(* Symbols and their character classes.                                    *)
(***************************************************************************)
Dates == {"2024-01-01", "2024-01-02"}
Times == {"10:00:01", "10:00:59"}
Digits == {"1", "2"}
Whitespace == {" ", "\t", "\n"}
Placeholders == {"$str", "$num"}

\* str.isdigit() of the first character of symbol c
isdigit(c) == c \in Digits \cup Dates \cup Times

isspace(c) == c \in Whitespace

(***************************************************************************)
(* Python string operations.                                               *)
(***************************************************************************)
RECURSIVE lstrip(_)
lstrip(s) == IF s # <<>> /\ isspace(Head(s)) THEN lstrip(Tail(s)) ELSE s

RECURSIVE rstrip_ws(_)
rstrip_ws(s) ==
    IF s # <<>> /\ isspace(s[Len(s)]) THEN rstrip_ws(SubSeq(s, 1, Len(s) - 1)) ELSE s

\* str.strip()
strip(s) == rstrip_ws(lstrip(s))

\* str.rstrip(';')
RECURSIVE rstrip_semicolon(_)
rstrip_semicolon(s) ==
    IF s # <<>> /\ s[Len(s)] = ";" THEN rstrip_semicolon(SubSeq(s, 1, Len(s) - 1)) ELSE s

\* str.split(): the whitespace-delimited tokens, each a sequence of symbols
RECURSIVE split_from(_, _, _)
split_from(s, i, tok) ==
    IF i > Len(s) THEN (IF tok = <<>> THEN <<>> ELSE <<tok>>)
    ELSE IF isspace(s[i])
         THEN (IF tok = <<>> THEN <<>> ELSE <<tok>>) \o split_from(s, i + 1, <<>>)
         ELSE split_from(s, i + 1, Append(tok, s[i]))

split(s) == split_from(s, 1, <<>>)

\* the first index >= i at which pat occurs in s, 0 when there is none (str.find)
RECURSIVE find_from(_, _, _)
find_from(s, pat, i) ==
    IF i + Len(pat) - 1 > Len(s) THEN 0
    ELSE IF SubSeq(s, i, i + Len(pat) - 1) = pat THEN i
         ELSE find_from(s, pat, i + 1)

\* str.upper() on the keywords the input uses
upper(c) ==
    CASE c = "select" -> "SELECT"
      [] c \in {"with", "With"} -> "WITH"
      [] c = "insert" -> "INSERT"
      [] c = "statement" -> "STATEMENT"
      [] OTHER -> c

(***************************************************************************)
(* dayparserz.py: PostgresLogParser                                        *)
(***************************************************************************)

\* the start of a statement line of the log: timestamp, " LOG:  statement: "
statement_prefix(date, time) ==
    <<date, " ", time, " ", "LOG", ":", " ", " ", "statement", ":", " ">>

\* self.buffer_size (1000 in the source), scaled down so that a run of a few
\* records stays below, reaches and passes the threshold
buffer_size == 2

\* group 1 of log_pattern: the number of symbols of the timestamp the line
\* starts with, 0 when it starts with none
timestamp_len(line) ==
    IF Len(line) >= 3 /\ line[1] \in Dates /\ line[2] = " " /\ line[3] \in Times
    THEN IF Len(line) >= 5 /\ line[4] = " " /\ upper(line[5]) = "UTC" THEN 5 ELSE 3
    ELSE 0

\* ".*?statement: " (IGNORECASE): the index of the first marker at or after j, 0 when none
RECURSIVE marker_from(_, _)
marker_from(line, j) ==
    IF j + 2 > Len(line) THEN 0
    ELSE IF upper(line[j]) = "STATEMENT" /\ line[j + 1] = ":" /\ line[j + 2] = " " THEN j
         ELSE marker_from(line, j + 1)

\* self.log_pattern.match(line): None, or the groups (timestamp, sql)
log_pattern_match(line) ==
    LET tl == timestamp_len(line)
        m == IF tl = 0 THEN 0 ELSE marker_from(line, tl + 1)
        semi == IF m = 0 THEN 0 ELSE find_from(line, <<";">>, m + 3)
        last == IF semi = 0 THEN Len(line) ELSE semi - 1
    IN IF m = 0 THEN None
       ELSE <<SubSeq(line, 1, tl), SubSeq(line, m + 3, last)>>

extract_query(line) ==
    LET match == log_pattern_match(line)
    IN IF match = None THEN None
       ELSE [timestamp |-> strip(match[1]), sql |-> strip(match[2])]

\* defaultdict(list) lookup
buffer_of(fb, filename) == IF filename \in DOMAIN fb THEN fb[filename] ELSE <<>>

\* the characters writelines(buffer) appends
RECURSIVE writelines(_)
writelines(buffer) == IF buffer = <<>> THEN <<>> ELSE Head(buffer) \o writelines(Tail(buffer))

\* buffer_query, lines 66-74: the operator of the semicolon-stripped body
operator_of(sql) ==
    LET first_word == IF sql # <<>>
                      THEN [i \in 1..Len(split(sql)[1]) |-> upper(split(sql)[1][i])]
                      ELSE <<>>
    IN IF first_word = <<"WITH">> THEN "SELECT"
       ELSE IF first_word \in {<<"SELECT">>, <<"INSERT">>, <<"UPDATE">>, <<"DELETE">>}
            THEN first_word[1]
            ELSE "OTHER"

\* buffer_query, line 67: sql.split()[0] of a non-empty body with no token raises IndexError
buffer_query_raises(query) ==
    LET sql == rstrip_semicolon(query.sql)
    IN sql # <<>> /\ split(sql) = <<>>

filename_of(query) ==
    <<operator_of(rstrip_semicolon(query.sql)), "_">> \o split(query.timestamp)[1] \o <<".log">>

\* f"{query['timestamp']} | {sql}\n"
bucket_line(query) ==
    query.timestamp \o <<" ", "|", " ">> \o rstrip_semicolon(query.sql) \o <<"\n">>

\* the writer's state as buffer_query and flush_buffers read and change it
Writer ==
    [output_files |-> output_files, file_buffers |-> file_buffers, files |-> files,
     dates_seen |-> dates_seen]

\* a threshold test that lets a buffer reach buffer_size lines
buffer_over(lines) == Len(lines) > buffer_size

\* buffer_query, line 84: len(self.file_buffers[filename]) >= self.buffer_size
buffer_full(lines) == Len(lines) >= buffer_size

\* buffer_query(query, output_files) when it does not raise
buffer_query(query, w) ==
    LET filename == filename_of(query)
        opened == IF filename \in DOMAIN w.files THEN w.files ELSE w.files @@ (filename :> <<>>)
        buffer == Append(buffer_of(w.file_buffers, filename), bucket_line(query))
        full == buffer_full(buffer)
    IN [output_files |-> w.output_files \cup {filename},
        file_buffers |-> (filename :> (IF full THEN <<>> ELSE buffer)) @@ w.file_buffers,
        files |-> [opened EXCEPT ![filename] = IF full THEN @ \o writelines(buffer) ELSE @],
        dates_seen |-> w.dates_seen \cup {split(query.timestamp)[1]}]

\* flush_buffers that clears the buffers without writing what they hold
flush_buffers_dropping(w) == [w EXCEPT !.file_buffers = <<>>]

\* flush_buffers(output_files)
flush_buffers(w) ==
    [w EXCEPT
        !.files = [f \in DOMAIN w.files |->
                     IF f \in DOMAIN w.file_buffers /\ w.file_buffers[f] # <<>>
                        /\ f \in w.output_files
                     THEN w.files[f] \o writelines(w.file_buffers[f])
                     ELSE w.files[f]],
        !.file_buffers = <<>>]

SetWriter(w) ==
    /\ output_files' = w.output_files
    /\ file_buffers' = w.file_buffers
    /\ files' = w.files
    /\ dates_seen' = w.dates_seen

\* the record handed to buffer_query, the group of lines it was built from (the
\* last record started) and what ended the group: a timestamp line, another
\* leading-digit line, the end of the input or an error
Handed(query, end) ==
    [timestamp |-> query.timestamp, sql |-> query.sql, group |-> started[Len(started)],
     end |-> end]

\* the text of a statement line after its marker
after_marker(line) ==
    SubSeq(line, marker_from(line, timestamp_len(line) + 1) + 3, Len(line))

\* parse, lines 32-42: one iteration of `for line in f`
ReadLine ==
    /\ pc = "read"
    /\ pos < Len(input)
    /\ pos' = pos + 1
    /\ LET line == strip(input[pos + 1])
       IN IF line = <<>>
          THEN UNCHANGED <<pc, exc, current_query, output_files, closed, file_buffers,
                           files, dates_seen, started, emitted>>
          ELSE IF isdigit(line[1])
          THEN LET end == IF timestamp_len(line) > 0 THEN "timestamp" ELSE "digit"
               IN IF current_query # None /\ buffer_query_raises(current_query)
                  THEN /\ pc' = "finally"
                       /\ exc' = "IndexError"
                       /\ emitted' = Append(emitted, Handed(current_query, end))
                       /\ UNCHANGED <<current_query, output_files, closed, file_buffers,
                                      files, dates_seen, started>>
                  ELSE /\ SetWriter(IF current_query # None
                                    THEN buffer_query(current_query, Writer)
                                    ELSE Writer)
                       /\ emitted' = IF current_query # None
                                     THEN Append(emitted, Handed(current_query, end))
                                     ELSE emitted
                       /\ current_query' = extract_query(line)
                       /\ started' = IF extract_query(line) # None
                                     THEN Append(started,
                                                 [line |-> pos + 1,
                                                  first |-> strip(after_marker(line)),
                                                  more |-> <<>>])
                                     ELSE started
                       /\ UNCHANGED <<pc, exc, closed>>
          ELSE IF current_query # None
          THEN /\ current_query' = [current_query EXCEPT !.sql = @ \o <<" ">> \o line]
               /\ started' = [started EXCEPT ![Len(started)].more = Append(@, line)]
               /\ UNCHANGED <<pc, exc, output_files, closed, file_buffers, files,
                              dates_seen, emitted>>
          ELSE UNCHANGED <<pc, exc, current_query, output_files, closed, file_buffers,
                           files, dates_seen, started, emitted>>
    /\ UNCHANGED <<input, sql_cache, summary>>
    /\ UNCHANGED <<normVars, parserVars, dirVars>>

\* parse, line 32: the input is exhausted and the loop ends
EndOfInput ==
    /\ pc = "read"
    /\ pos = Len(input)
    /\ pc' = "finally"
    /\ UNCHANGED <<input, pos, exc, current_query, output_files, closed, file_buffers,
                   files, dates_seen, sql_cache, summary, started, emitted>>
    /\ UNCHANGED <<normVars, parserVars, dirVars>>

\* parse, lines 31-32: opening or reading the input fails
ReadError ==
    /\ pc = "read"
    /\ pc' = "finally"
    /\ exc' = "IOError"
    /\ UNCHANGED <<input, pos, current_query, output_files, closed, file_buffers,
                   files, dates_seen, sql_cache, summary, started, emitted>>
    /\ UNCHANGED <<normVars, parserVars, dirVars>>

\* parse, lines 44-45: the finally block hands over the record in progress
FinallyBuffer ==
    /\ pc = "finally"
    /\ IF current_query # None
       THEN /\ emitted' = Append(emitted,
                                 Handed(current_query, IF exc = "none" THEN "eof" ELSE "error"))
            /\ IF buffer_query_raises(current_query)
               THEN /\ pc' = "raised"
                    /\ exc' = "IndexError"
                    /\ UNCHANGED <<output_files, file_buffers, files, dates_seen>>
               ELSE /\ pc' = "flush"
                    /\ SetWriter(buffer_query(current_query, Writer))
                    /\ UNCHANGED exc
       ELSE /\ pc' = "flush"
            /\ UNCHANGED <<exc, output_files, file_buffers, files, dates_seen, emitted>>
    /\ UNCHANGED <<input, pos, current_query, closed, sql_cache, summary, started>>
    /\ UNCHANGED <<normVars, parserVars, dirVars>>

\* parse, line 46
FlushBuffers ==
    /\ pc = "flush"
    /\ pc' = "close"
    /\ SetWriter(flush_buffers(Writer))
    /\ UNCHANGED <<input, pos, exc, current_query, closed, sql_cache, summary,
                   started, emitted>>
    /\ UNCHANGED <<normVars, parserVars, dirVars>>

\* parse, lines 47-48
CloseFiles ==
    /\ pc = "close"
    /\ pc' = "summary"
    /\ closed' = [f \in output_files |-> IF f \in DOMAIN closed THEN closed[f] + 1 ELSE 1]
    /\ UNCHANGED <<input, pos, exc, current_query, output_files, file_buffers, files,
                   dates_seen, sql_cache, summary, started, emitted>>
    /\ UNCHANGED <<normVars, parserVars, dirVars>>

(***************************************************************************)
(* normalize_sql: the three substitutions and the whitespace collapse.     *)
(* re.sub scans the text once, left to right, and replaces the leftmost    *)
(* non-overlapping matches.                                                *)
(***************************************************************************)
NonWord == Whitespace \cup {";", "'", ".", ":", "|", ",", "=", "?", "-"}

\* the first character of symbol c is a word character (\w)
word_start(c) == c \notin NonWord \cup Placeholders

\* the last character of symbol c is a word character (\w)
word_end(c) == c \notin NonWord

\* \b before s[i] (i = Len(s) + 1: at the end of s)
boundary(s, i) ==
    (i > 1 /\ word_end(s[i - 1])) # (i <= Len(s) /\ word_start(s[i]))

\* \d+ from s[i], a digit: the index of the last digit of the run
RECURSIVE digits_end(_, _)
digits_end(s, i) ==
    IF i + 1 <= Len(s) /\ s[i + 1] \in Digits THEN digits_end(s, i + 1) ELSE i

\* '(?:''|[^'])*' from the quote at s[i]: p is the index the repetition has
\* reached, back the last index at which it took '' (where backtracking can
\* close the literal instead); the index of the closing quote, 0 for no match
RECURSIVE string_end(_, _, _)
string_end(s, p, back) ==
    IF p > Len(s) THEN back
    ELSE IF s[p] # "'" THEN string_end(s, p + 1, back)
    ELSE IF p + 1 <= Len(s) /\ s[p + 1] = "'" THEN string_end(s, p + 2, p)
    ELSE p

\* self.string_pattern.sub('$str', s), from index i
RECURSIVE string_pattern_sub(_, _)
string_pattern_sub(s, i) ==
    IF i > Len(s) THEN <<>>
    ELSE IF s[i] = "'" /\ string_end(s, i + 1, 0) > 0
         THEN <<"$str">> \o string_pattern_sub(s, string_end(s, i + 1, 0) + 1)
         ELSE <<s[i]>> \o string_pattern_sub(s, i + 1)

\* \b\d+\.\d+\b at s[i]: the index of the last symbol of the match, 0 for no match
float_end(s, i) ==
    IF s[i] \in Digits /\ boundary(s, i)
    THEN LET e1 == digits_end(s, i)
         IN IF e1 + 2 <= Len(s) /\ s[e1 + 1] = "." /\ s[e1 + 2] \in Digits
               /\ boundary(s, digits_end(s, e1 + 2) + 1)
            THEN digits_end(s, e1 + 2)
            ELSE 0
    ELSE 0

\* self.float_pattern.sub('$num', s), from index i
RECURSIVE float_pattern_sub(_, _)
float_pattern_sub(s, i) ==
    IF i > Len(s) THEN <<>>
    ELSE IF float_end(s, i) > 0
         THEN <<"$num">> \o float_pattern_sub(s, float_end(s, i) + 1)
         ELSE <<s[i]>> \o float_pattern_sub(s, i + 1)

\* \b\d+\b at s[i]: the index of the last symbol of the match, 0 for no match
number_end(s, i) ==
    IF s[i] \in Digits /\ boundary(s, i) /\ boundary(s, digits_end(s, i) + 1)
    THEN digits_end(s, i)
    ELSE 0

\* self.number_pattern.sub('$num', s), from index i
RECURSIVE number_pattern_sub(_, _)
number_pattern_sub(s, i) ==
    IF i > Len(s) THEN <<>>
    ELSE IF number_end(s, i) > 0
         THEN <<"$num">> \o number_pattern_sub(s, number_end(s, i) + 1)
         ELSE <<s[i]>> \o number_pattern_sub(s, i + 1)

\* ' '.join(tokens)
RECURSIVE join(_)
join(tokens) ==
    IF tokens = <<>> THEN <<>>
    ELSE IF Len(tokens) = 1 THEN tokens[1]
    ELSE tokens[1] \o <<" ">> \o join(Tail(tokens))

\* normalize_sql, lines 98-101: the value computed on a cache miss
normalize(sql) ==
    join(split(number_pattern_sub(float_pattern_sub(string_pattern_sub(sql, 1), 1), 1)))

\* a normalize_sql that computes the value and never stores it
normalize_sql_nostore(sql, cache) ==
    [value |-> normalize(sql), cache |-> cache, computed |-> TRUE]

\* normalize_sql(sql): the value returned, the cache afterwards, and whether
\* lines 98-101 ran
normalize_sql(sql, cache) ==
    IF sql \in DOMAIN cache
    THEN [value |-> cache[sql], cache |-> cache, computed |-> FALSE]
    ELSE [value |-> normalize(sql), cache |-> (sql :> normalize(sql)) @@ cache,
          computed |-> TRUE]

\* one more run of lines 98-101 on the body sql
count_computed(runs, sql) ==
    (sql :> (IF sql \in DOMAIN runs THEN runs[sql] + 1 ELSE 1)) @@ runs

(***************************************************************************)
(* generate_daily_summary                                                  *)
(***************************************************************************)

\* glob.glob(f'*_{date}.log') in the working directory fs
glob_date(fs, date) ==
    {f \in DOMAIN fs :
        /\ Len(f) >= Len(date) + 2
        /\ SubSeq(f, Len(f) - Len(date) - 1, Len(f)) = <<"_">> \o date \o <<".log">>}

\* `for line in f`: the lines of a file, each with its newline
RECURSIVE file_lines(_)
file_lines(content) ==
    IF content = <<>> THEN <<>>
    ELSE LET k == find_from(content, <<"\n">>, 1)
         IN IF k = 0 THEN <<content>>
            ELSE <<SubSeq(content, 1, k)>> \o file_lines(SubSeq(content, k + 1, Len(content)))

\* lines 114-119: line.split(' | ', 1) and sql.strip(); None for fewer than two parts
summary_parts(line) ==
    LET k == find_from(line, <<" ", "|", " ">>, 1)
    IN IF k = 0 THEN None
       ELSE [timestamp |-> SubSeq(line, 1, k - 1), sql |-> strip(SubSeq(line, k + 3, Len(line)))]

\* the lines the three nested loops of lines 110-113 visit: (date, file, index of the line)
summary_visits(fs, dates) ==
    UNION {{<<d, f, i>> : i \in 1..Len(file_lines(fs[f]))} :
              <<d, f>> \in {p \in dates \X DOMAIN fs : p[2] \in glob_date(fs, p[1])}}

visited_parts(fs, v) == summary_parts(file_lines(fs[v[2]])[v[3]])

\* lines 115-129: the visits that reach the increment of line 131
summary_counted(fs, dates) ==
    {v \in summary_visits(fs, dates) :
        /\ visited_parts(fs, v) # None
        /\ split(visited_parts(fs, v).timestamp) # <<>>}

\* a key that counts the stored body as it is, not its normalized form
summary_key_raw(fs, cache, v) ==
    <<split(visited_parts(fs, v).timestamp)[1], visited_parts(fs, v).sql>>

\* lines 121-127: the key (date_key, normalized_sql) of a counted visit
summary_key(fs, cache, v) ==
    <<split(visited_parts(fs, v).timestamp)[1],
      normalize_sql(visited_parts(fs, v).sql, cache).value>>

\* the code-point order of the symbols days and normalized statements are made of
SymbolOrder ==
    <<"\t", "\n", " ", "$num", "$str", "'", ",", ".", "1", "10:00", "10:00:01",
      "10:00:59", "10:01", "10:01:00",
      "2", "2023-12-31", "2024-01-01",
      "2024-01-02", ":", ";", "=", "With",
      "a", "b", "insert", "select", "statement", "with", "|">>

sym_rank(c) == CHOOSE i \in 1..Len(SymbolOrder) : SymbolOrder[i] = c

\* a < b for Python strings
RECURSIVE str_less(_, _)
str_less(a, b) ==
    IF b = <<>> THEN FALSE
    ELSE IF a = <<>> THEN TRUE
    ELSE IF a[1] = b[1] THEN str_less(Tail(a), Tail(b))
    ELSE sym_rank(a[1]) < sym_rank(b[1])

key_less(k1, k2) == str_less(k1[1], k2[1]) \/ (k1[1] = k2[1] /\ str_less(k1[2], k2[2]))

\* lines 134-135: sorted(stats) and, within a day, sorted(stats[day].items())
RECURSIVE sorted(_)
sorted(keys) ==
    IF keys = {} THEN <<>>
    ELSE LET first == CHOOSE k \in keys : \A other \in keys \ {k} : key_less(k, other)
         IN <<first>> \o sorted(keys \ {first})

\* line 136: the summary line; "vypolnilsya" and "raz" stand for the two Russian
\* words ("was executed", "times") the source writes around the count
summary_line(day, sql, count) ==
    day \o <<" ", "|", " ">> \o sql
        \o <<" ", "|", " ", "vypolnilsya", " ", ToString(count), " ", "raz", "\n">>

\* the (date, file) pairs of the loops of lines 110-111
glob_pairs(fs, dates) == {p \in dates \X DOMAIN fs : p[2] \in glob_date(fs, p[1])}

\* the orders of a set of values
RECURSIVE orders_of(_)
orders_of(S) ==
    IF S = {} THEN {<<>>}
    ELSE UNION {{<<x>> \o rest : rest \in orders_of(S \ {x})} : x \in S}

\* the orders of the files of the dates of a sequence, date by date
RECURSIVE file_orders(_, _)
file_orders(fs, days) ==
    IF days = <<>> THEN {<<>>}
    ELSE {first \o rest :
            first \in orders_of(glob_pairs(fs, {days[1]})),
            rest \in file_orders(fs, Tail(days))}

\* the orders the loops of lines 110-111 can visit the pairs in: the set
\* dates_seen and glob are iterated in no fixed order, date by date
visit_orders(fs, dates) ==
    UNION {file_orders(fs, days) : days \in orders_of(dates)}

\* lines 112-119: the bodies read from the files, in the order of the visit
RECURSIVE read_bodies(_, _)
read_bodies(fs, order) ==
    IF order = <<>> THEN <<>>
    ELSE LET lines == file_lines(fs[order[1][2]])
             kept == SelectSeq(lines, LAMBDA l : summary_parts(l) # None)
         IN [i \in 1..Len(kept) |-> summary_parts(kept[i]).sql]
            \o read_bodies(fs, Tail(order))

\* lines 121-124 over the bodies read: the lookup in the cache and, on a
\* miss, the call of normalize_sql
RECURSIVE cache_scan(_, _, _)
cache_scan(bodies, cache, runs) ==
    IF bodies = <<>> THEN [cache |-> cache, computed |-> runs]
    ELSE LET sql == Head(bodies)
         IN IF sql \in DOMAIN cache
            THEN cache_scan(Tail(bodies), cache, runs)
            ELSE LET r == normalize_sql(sql, cache)
                 IN cache_scan(Tail(bodies), r.cache,
                               IF r.computed THEN count_computed(runs, sql) ELSE runs)

\* generate_daily_summary(): the lines written to daily_summary.log; the
\* counts of lines 107-131 do not depend on the order of the visit
generate_daily_summary(fs, dates, cache) ==
    LET counted == summary_counted(fs, dates)
        keys == {summary_key(fs, cache, v) : v \in counted}
        count(k) == Cardinality({v \in counted : summary_key(fs, cache, v) = k})
        written == sorted(keys)
    IN [i \in 1..Len(written) |->
           summary_line(written[i][1], written[i][2], count(written[i]))]

\* a summary file opened for appending: a second run adds its lines to the first
open_append(old, lines) == IF pc = "summary" THEN lines ELSE old \o lines

\* line 133: open("daily_summary.log", 'w') and the writes of line 136
open_write(old, lines) == lines

\* generate_daily_summary() as a step of the program
Aggregate ==
    /\ summary' = open_write(summary, generate_daily_summary(files, dates_seen, sql_cache))
    /\ \E order \in visit_orders(files, dates_seen) :
          LET scan == cache_scan(read_bodies(files, order), sql_cache, computed)
          IN /\ sql_cache' = scan.cache
             /\ computed' = scan.computed
    /\ UNCHANGED <<input, pos, exc, current_query, output_files, closed, file_buffers,
                   files, dates_seen, started, emitted>>
    /\ UNCHANGED <<query_sql, normalized, npc, query_norm, parserVars, dirVars>>

\* parse, line 50
GenerateDailySummary ==
    /\ pc = "summary"
    /\ pc' = "done"
    /\ Aggregate

\* generate_daily_summary() called a second time on the same parser, with the
\* stores, the dates seen and the cache as the first call left them
GenerateDailySummaryAgain ==
    /\ pc = "done"
    /\ pc' = "again"
    /\ Aggregate

\* the input paths that name a file of the working directory, "/work/" being
\* the absolute path of the working directory
InWorkingDir == {<<"app.log">>, <<"./", "app.log">>, <<"/work/", "app.log">>}

\* os.path.basename
basename(path) == <<path[Len(path)]>>

\* glob.glob("*.log"): the names of the log files of the working directory;
\* daily_summary.log is among them, line 133 has created it
glob_log(fs, path, exists) ==
    DOMAIN fs
    \cup {<<"daily_summary.log">>}
    \cup (IF exists /\ path \in InWorkingDir THEN {basename(path)} ELSE {})

\* lines 138-154: the summary and the stores of the dates seen, if they exist
files_to_archive(fs, dates) ==
    {f \in DOMAIN fs :
        \E date \in dates, operator \in {"SELECT", "INSERT", "UPDATE", "DELETE", "OTHER"} :
            f = <<operator, "_">> \o date \o <<".log">>}

\* parse, line 51: compress_results()
CompressResults ==
    /\ pc = "done"
    /\ pc' = "cleanup"
    /\ archive' = (<<"daily_summary.log">> :> summary)
                      @@ [f \in files_to_archive(files, dates_seen) |-> files[f]]
    /\ UNCHANGED <<input, pos, exc, current_query, output_files, closed, file_buffers,
                   files, dates_seen, sql_cache, summary, started, emitted,
                   log_file_path, input_exists>>
    /\ UNCHANGED <<normVars, parserVars>>

\* line 158: file != self.log_file_path (an archive name never ends in .log)
spared(file, path) == file = path

\* parse, line 52: cleanup_files()
CleanupFiles ==
    /\ pc = "cleanup"
    /\ pc' = "end"
    /\ LET removed == {f \in glob_log(files, log_file_path, input_exists) :
                          ~spared(f, log_file_path)}
       IN /\ files' = [f \in DOMAIN files \ removed |-> files[f]]
          /\ summary' = IF <<"daily_summary.log">> \in removed THEN NoFile ELSE summary
          /\ input_exists' = IF log_file_path \in InWorkingDir
                                 /\ basename(log_file_path) \in removed
                              THEN FALSE ELSE input_exists
    /\ UNCHANGED <<input, pos, exc, current_query, output_files, closed, file_buffers,
                   dates_seen, sql_cache, started, emitted, log_file_path, archive>>
    /\ UNCHANGED <<normVars, parserVars>>

\* the state of a DayParser after __init__, lines 9-24
InitRun ==
    /\ pos = 0
    /\ exc = "none"
    /\ current_query = None
    /\ output_files = {}
    /\ closed = <<>>
    /\ file_buffers = <<>>
    /\ dates_seen = {}
    /\ sql_cache = <<>>
    /\ summary = NoFile
    /\ started = <<>>
    /\ emitted = <<>>
    /\ input_exists = TRUE
    /\ archive = NoFile

(***************************************************************************)
(* minparserz.py: generate_combined_summary, the aggregation by minute.    *)
(***************************************************************************)

\* the dates and times strptime accepts, and one of each it rejects
CalendarDates == Dates
ClockTimes == Times \cup {"10:01:00"}
BadDate == "2024-13-45"
BadTime == "25:61:61"

\* the number of characters of a symbol of a stored timestamp
width(c) ==
    CASE c \in CalendarDates \cup {BadDate} -> 10
      [] c \in ClockTimes \cup {BadTime} -> 8
      [] c = ".123" -> 4
      [] c = "UTC" -> 3
      [] OTHER -> 1

\* timestamp[:n]; the symbols of the stored timestamps end at character 19
RECURSIVE take_chars(_, _)
take_chars(s, n) ==
    IF s = <<>> \/ width(s[1]) > n THEN <<>>
    ELSE <<s[1]>> \o take_chars(Tail(s), n - width(s[1]))

\* datetime.strptime(ts, '%Y-%m-%d %H:%M:%S'): None stands for ValueError
strptime(ts) ==
    IF Len(ts) = 3 /\ ts[1] \in CalendarDates /\ ts[2] = " " /\ ts[3] \in ClockTimes
    THEN [date |-> ts[1], time |-> ts[3]]
    ELSE None

\* a label that keeps the seconds
keep_seconds(t) == t

\* dt.replace(second=0).strftime('%H:%M') of a time
minute_of(t) ==
    CASE t \in {"10:00:01", "10:00:59"} -> "10:00"
      [] t = "10:01:00" -> "10:01"

\* lines 127-128: strptime does not raise ValueError on timestamp[:19]
minute_parses(timestamp) == strptime(take_chars(timestamp, 19)) # None

\* line 129: the minute key of a stored timestamp that parses
minute_key(timestamp) ==
    LET dt == strptime(take_chars(timestamp, 19))
    IN <<dt.date, " ", minute_of(dt.time)>>

\* lines 114-133: the visits that reach the increment of line 133
minute_counted(fs, dates) ==
    {v \in summary_visits(fs, dates) :
        /\ visited_parts(fs, v) # None
        /\ minute_parses(visited_parts(fs, v).timestamp)}

\* lines 121-133: the key (minute_key, normalized_sql) of a counted visit
combined_key(fs, cache, v) ==
    <<minute_key(visited_parts(fs, v).timestamp),
      normalize_sql(visited_parts(fs, v).sql, cache).value>>

\* generate_combined_summary(): the lines written to the summary file
generate_combined_summary(fs, dates, cache) ==
    LET counted == minute_counted(fs, dates)
        keys == {combined_key(fs, cache, v) : v \in counted}
        count(k) == Cardinality({v \in counted : combined_key(fs, cache, v) = k})
        written == sorted(keys)
    IN [i \in 1..Len(written) |->
           summary_line(written[i][1], written[i][2], count(written[i]))]

\* generate_combined_summary() as a step: lines 106-138
GenerateCombinedSummary ==
    /\ pc = "combine"
    /\ pc' = "combined"
    /\ summary' = open_write(summary, generate_combined_summary(files, dates_seen, sql_cache))
    /\ \E order \in visit_orders(files, dates_seen) :
          LET scan == cache_scan(read_bodies(files, order), sql_cache, computed)
          IN /\ sql_cache' = scan.cache
             /\ computed' = scan.computed
    /\ UNCHANGED <<input, pos, exc, current_query, output_files, closed, file_buffers,
                   files, dates_seen, started, emitted>>
    /\ UNCHANGED <<query_sql, normalized, npc, query_norm, parserVars, dirVars>>

(***************************************************************************)
(* One call of normalize_sql, line by line, and a second call with the     *)
(* same argument.                                                          *)
(***************************************************************************)
MaxBody == 4

BodySymbols == {"'", "1", ".", "a", " "}

Bodies == UNION {[1..n -> BodySymbols] : n \in 0..MaxBody}

\* no call of normalize_sql is under way
NormIdle ==
    /\ query_sql = <<>>
    /\ normalized = None
    /\ npc = "idle"
    /\ query_norm = None
    /\ computed = <<>>

\* no run of parse is under way
RunIdle ==
    /\ input = <<>>
    /\ files = <<>>
    /\ pc = "idle"
    /\ log_file_path = <<"app.log">>
    /\ InitRun

\* lines 95-96: the cache lookup
NormalizeCall ==
    /\ npc = "call"
    /\ IF query_sql \in DOMAIN sql_cache
       THEN normalized' = sql_cache[query_sql] /\ npc' = "done"
       ELSE normalized' = normalized /\ npc' = "string"
    /\ UNCHANGED <<runVars, sql_cache, query_sql, query_norm, computed, parserVars>>

\* line 98
SubString ==
    /\ npc = "string"
    /\ normalized' = string_pattern_sub(query_sql, 1)
    /\ npc' = "float"
    /\ computed' = count_computed(computed, query_sql)
    /\ UNCHANGED <<runVars, sql_cache, query_sql, query_norm, parserVars>>

\* line 99
SubFloat ==
    /\ npc = "float"
    /\ normalized' = float_pattern_sub(normalized, 1)
    /\ npc' = "number"
    /\ UNCHANGED <<runVars, sql_cache, query_sql, query_norm, computed, parserVars>>

\* line 100
SubNumber ==
    /\ npc = "number"
    /\ normalized' = number_pattern_sub(normalized, 1)
    /\ npc' = "space"
    /\ UNCHANGED <<runVars, sql_cache, query_sql, query_norm, computed, parserVars>>

\* line 101
CollapseSpace ==
    /\ npc = "space"
    /\ normalized' = join(split(normalized))
    /\ npc' = "store"
    /\ UNCHANGED <<runVars, sql_cache, query_sql, query_norm, computed, parserVars>>

\* lines 103-104
StoreCache ==
    /\ npc = "store"
    /\ sql_cache' = (query_sql :> normalized) @@ sql_cache
    /\ npc' = "done"
    /\ UNCHANGED <<runVars, query_sql, query_norm, normalized, computed, parserVars>>

\* the caller calls normalize_sql again with the same body
CallAgain ==
    /\ npc = "done"
    /\ npc' = "call"
    /\ normalized' = None
    /\ UNCHANGED <<runVars, sql_cache, query_sql, query_norm, computed, parserVars>>

(***************************************************************************)
(* parser.py: parse_log_in_chunks reads the file chunk_size characters at  *)
(* a time and hands complete lines to process_line.                        *)
(***************************************************************************)

\* str.split('\n'): the fragments between newlines, at least one
RECURSIVE split_newline(_)
split_newline(s) ==
    LET k == find_from(s, <<"\n">>, 1)
    IN IF k = 0 THEN <<s>>
       ELSE <<SubSeq(s, 1, k - 1)>> \o split_newline(SubSeq(s, k + 1, Len(s)))

\* every fragment is taken for a complete line and nothing is kept back
chunk_lines_all(s) ==
    [lines |-> split_newline(s), buffer |-> <<>>]

\* lines 29-30: lines = buffer.split('\n'); buffer = lines.pop()
chunk_lines(s) ==
    LET parts == split_newline(s)
    IN [lines |-> SubSeq(parts, 1, Len(parts) - 1), buffer |-> parts[Len(parts)]]

\* re.sub(r'--.*', '', query): a comment runs to the end of its line
strip_comment(s) ==
    LET k == find_from(s, <<"-", "-">>, 1)
        nl == IF k = 0 THEN 0 ELSE find_from(s, <<"\n">>, k)
    IN IF k = 0 THEN s
       ELSE IF nl = 0 THEN SubSeq(s, 1, k - 1)
       ELSE SubSeq(s, 1, k - 1) \o SubSeq(s, nl, Len(s))

\* re.sub(r"'.*?'", '?', query): from a quote to the nearest later quote
RECURSIVE quoted_sub(_, _)
quoted_sub(s, i) ==
    IF i > Len(s) THEN <<>>
    ELSE LET j == IF s[i] = "'" THEN find_from(s, <<"'">>, i + 1) ELSE 0
         IN IF j > 0 /\ find_from(SubSeq(s, i, j), <<"\n">>, 1) = 0
            THEN <<"?">> \o quoted_sub(s, j + 1)
            ELSE <<s[i]>> \o quoted_sub(s, i + 1)

\* re.sub(r'\b\d+\b', '?', query)
RECURSIVE digits_sub(_, _)
digits_sub(s, i) ==
    IF i > Len(s) THEN <<>>
    ELSE LET e == number_end(s, i)
         IN IF e > 0 THEN <<"?">> \o digits_sub(s, e + 1)
            ELSE <<s[i]>> \o digits_sub(s, i + 1)

\* lines 5-10
normalize_query(query) ==
    strip(digits_sub(quoted_sub(strip_comment(query), 1), 1))

\* timestamp_regex.search(line): a date, a space and a time anywhere in the line
time_match(line) ==
    \E i \in 1..(Len(line) - 2) :
        line[i] \in Dates /\ line[i + 1] = " " /\ line[i + 2] \in Times

statement_marker == <<"LOG", ":", " ", " ", "statement", ":", " ">>

\* the parser state process_line and finalize_query update in place
ParserState(cnt, query) == [counter |-> cnt, current_query |-> query]

\* lines 61-67; the time is the caller's current_time
finalize_query(st, time) ==
    IF st.current_query = <<>> THEN st
    ELSE LET key == <<time, normalize_query(join(st.current_query))>>
             n == IF key \in DOMAIN st.counter THEN st.counter[key] ELSE 0
         IN ParserState((key :> n + 1) @@ st.counter, <<>>)

\* lines 46-59.  current_time is a parameter: the assignment of line 52
\* binds the local name only and is read by nothing after it.
process_line(line, st, time) ==
    LET m == find_from(line, statement_marker, 1)
    IN IF m > 0 /\ time_match(line)
       THEN LET st1 == finalize_query(st, time)
                start == m + Len(statement_marker)
            IN ParserState(st1.counter,
                           Append(st1.current_query,
                                  strip(SubSeq(line, start, Len(line)))))
       ELSE IF time_match(line) /\ st.current_query # <<>>
       THEN finalize_query(st, time)
       ELSE IF st.current_query # <<>>
       THEN ParserState(st.counter, Append(st.current_query, strip(line)))
       ELSE st

\* lines 31-34: process_line over the complete lines, in order
RECURSIVE process_lines(_, _, _)
process_lines(lines, st, time) ==
    IF lines = <<>> THEN st
    ELSE process_lines(Tail(lines), process_line(Head(lines), st, time), time)

\* no call of parse_log_in_chunks is under way
ParserIdle ==
    /\ text = <<>>
    /\ chunk_size = 1
    /\ fpos = 0
    /\ line_buffer = <<>>
    /\ counter = <<>>
    /\ current_query_list = <<>>
    /\ current_time = None
    /\ processed = <<>>
    /\ ppc = "idle"

\* lines 25-34: one chunk is read and its complete lines are processed
ReadChunk ==
    /\ ppc = "read"
    /\ fpos < Len(text)
    /\ LET end == IF fpos + chunk_size < Len(text) THEN fpos + chunk_size
                  ELSE Len(text)
           cut == chunk_lines(line_buffer \o SubSeq(text, fpos + 1, end))
           st == process_lines(cut.lines,
                               ParserState(counter, current_query_list),
                               current_time)
       IN /\ fpos' = end
          /\ line_buffer' = cut.buffer
          /\ processed' = processed \o cut.lines
          /\ counter' = st.counter
          /\ current_query_list' = st.current_query
    /\ UNCHANGED <<text, chunk_size, current_time, ppc>>
    /\ UNCHANGED <<runVars, sql_cache, normVars>>

\* lines 26-27 and 36-44: read returns '', the rest of the buffer is the
\* last line, the open query is finalized
EndOfFile ==
    /\ ppc = "read"
    /\ fpos = Len(text)
    /\ LET st0 == ParserState(counter, current_query_list)
           st1 == IF line_buffer # <<>> THEN process_line(line_buffer, st0, current_time)
                  ELSE st0
           st2 == finalize_query(st1, current_time)
       IN /\ processed' = IF line_buffer # <<>> THEN Append(processed, line_buffer)
                          ELSE processed
          /\ counter' = st2.counter
          /\ current_query_list' = st2.current_query
    /\ ppc' = "done"
    /\ UNCHANGED <<text, chunk_size, fpos, line_buffer, current_time>>
    /\ UNCHANGED <<runVars, sql_cache, normVars>>

(***************************************************************************)
(* The runs: every log of at most MaxLines lines drawn from LogLines.      *)
(***************************************************************************)
MaxLines == 3

LogLines ==
    { statement_prefix("2024-01-01", "10:00:01") \o <<"select", " ", "1">>,
      statement_prefix("2024-01-01", "10:00:59") \o <<"select", " ", "2", ";">>,
      statement_prefix("2024-01-02", "10:00:01") \o <<"insert", " ", "a", ";", "b">>,
      statement_prefix("2024-01-02", "10:00:59") \o <<"With", " ", "a">>,
      statement_prefix("2024-01-01", "10:00:01") \o <<";">>,
      <<";">>,
      <<" ", "a", " ">>,
      <<"1", " ", "a">>,
      <<" ">>,
      <<"2024-01-01", " ", "10:00:01", " ", "LOG", ":", " ", "a">> }

Logs == UNION {[1..n -> LogLines] : n \in 0..MaxLines}

\* a run in a working directory with no bucket stores
Init ==
    /\ input \in Logs
    /\ files = <<>>
    /\ log_file_path = <<"app.log">>
    /\ pc = "read"
    /\ InitRun
    /\ NormIdle
    /\ ParserIdle

Next ==
    \/ ReadLine
    \/ EndOfInput
    \/ ReadError
    \/ FinallyBuffer
    \/ FlushBuffers
    \/ CloseFiles
    \/ GenerateDailySummary
    \/ GenerateDailySummaryAgain
    \/ CompressResults
    \/ CleanupFiles

Spec == Init /\ [][Next]_vars

\* runs on an input of at most MaxCleanupLines lines, for every spelling and
\* place of the input path
MaxCleanupLines == 1

InputPaths == InWorkingDir \cup {<<"logs/", "app.log">>}

InitCleanup ==
    /\ input \in {l \in Logs : Len(l) <= MaxCleanupLines}
    /\ files = <<>>
    /\ log_file_path \in InputPaths
    /\ pc = "read"
    /\ InitRun
    /\ NormIdle
    /\ ParserIdle

SpecCleanup == InitCleanup /\ [][Next]_vars

\* a run in a working directory that an earlier, partial run left bucket stores in
StaleDirs ==
    { (<<"SELECT", "_", "2024-01-01", ".log">> :>
          <<"2024-01-01", " ", "10:00:01", " ", "|", " ", "select", " ", "1", "\n">>),
      (<<"OTHER", "_", "2024-01-02", ".log">> :>
          <<"2023-12-31", " ", "10:00:59", " ", "|", " ", "a", "\n">>) }

InitRestart ==
    /\ input \in Logs
    /\ files \in StaleDirs
    /\ log_file_path = <<"app.log">>
    /\ pc = "read"
    /\ InitRun
    /\ NormIdle
    /\ ParserIdle

SpecRestart == InitRestart /\ [][Next]_vars

\* normalize_query and then normalize_sql of a fresh parser, for every body over
\* BodySymbols
InitNorm ==
    /\ query_sql \in Bodies
    /\ normalized = None
    /\ npc = "query"
    /\ query_norm = None
    /\ computed = <<>>
    /\ RunIdle
    /\ ParserIdle

\* parser.py, lines 5-10: normalize_query on the same body
NormalizeQuery ==
    /\ npc = "query"
    /\ query_norm' = normalize_query(query_sql)
    /\ npc' = "call"
    /\ UNCHANGED <<runVars, sql_cache, query_sql, normalized, computed, parserVars>>

NextNorm ==
    \/ NormalizeQuery
    \/ NormalizeCall
    \/ SubString
    \/ SubFloat
    \/ SubNumber
    \/ CollapseSpace
    \/ StoreCache
    \/ CallAgain

SpecNorm == InitNorm /\ [][NextNorm]_vars

\* the files parse_log_in_chunks reads: at most MaxFileLines lines drawn from
\* FileLines, with or without a newline after the last one, read
\* chunk_size symbols at a time
MaxFileLines == 3

MaxChunk == 3

FileLines ==
    { statement_prefix("2024-01-01", "10:00:01") \o <<"select", " ", "1">>,
      statement_prefix("2024-01-01", "10:00:59") \o <<"select", " ", "'", "a", "'">>,
      <<"2024-01-01", " ", "10:00:01", " ", "LOG", ":", " ", "a">>,
      <<" ", "a">>,
      <<>> }

RECURSIVE unlines(_)
unlines(lines) ==
    IF lines = <<>> THEN <<>>
    ELSE IF Len(lines) = 1 THEN lines[1]
    ELSE lines[1] \o <<"\n">> \o unlines(Tail(lines))

Files ==
    {unlines(ls) \o tail :
        ls \in UNION {[1..n -> FileLines] : n \in 0..MaxFileLines},
        tail \in {<<>>, <<"\n">>}}

InitChunks ==
    /\ text \in Files
    /\ chunk_size \in 1..MaxChunk
    /\ fpos = 0
    /\ line_buffer = <<>>
    /\ counter = <<>>
    /\ current_query_list = <<>>
    /\ current_time = None
    /\ processed = <<>>
    /\ ppc = "read"
    /\ RunIdle
    /\ NormIdle

NextChunks ==
    \/ ReadChunk
    \/ EndOfFile

SpecChunks == InitChunks /\ [][NextChunks]_vars

\* the bucket stores generate_combined_summary reads: a store of a day with at
\* most MaxStoreLines lines drawn from StoreLines and, or not, a second store
\* with one line
MaxStoreLines == 2

StoreLines ==
    { <<"2024-01-01", " ", "10:00:01", " ", "|", " ", "select", " ", "1", "\n">>,
      <<"2024-01-01", " ", "10:00:59", ".123", " ", "|", " ", "select", " ", "2", "\n">>,
      <<"2024-01-01", " ", "10:01:00", " ", "UTC", " ", "|", " ", "select", " ", "1", "\n">>,
      <<"2024-13-45", " ", "10:00:01", " ", "|", " ", "select", " ", "1", "\n">>,
      <<"2024-01-01", " ", "25:61:61", " ", "|", " ", "select", " ", "1", "\n">>,
      <<"2024-01-01", " ", "|", " ", "select", " ", "1", "\n">>,
      <<"a", "\n">> }

RECURSIVE concat(_)
concat(lines) == IF lines = <<>> THEN <<>> ELSE Head(lines) \o concat(Tail(lines))

StoreContents(n) == {concat(ls) : ls \in UNION {[1..k -> StoreLines] : k \in 0..n}}

MinuteDirs ==
    {(<<"SELECT", "_", "2024-01-01", ".log">> :> c) : c \in StoreContents(MaxStoreLines)}
    \cup {(<<"SELECT", "_", "2024-01-01", ".log">> :> c)
             @@ (<<"SELECT", "_", "2024-13-45", ".log">> :> d) :
             c \in StoreContents(MaxStoreLines), d \in StoreLines}

\* the dates in the names of the stores of a directory
dates_of(fs) == {<<f[3]>> : f \in DOMAIN fs}

\* a parser whose routing pass is over and whose stores are closed
InitMinute ==
    /\ input = <<>>
    /\ files \in MinuteDirs
    /\ pc = "combine"
    /\ pos = 0
    /\ exc = "none"
    /\ current_query = None
    /\ output_files = {}
    /\ closed = <<>>
    /\ file_buffers = <<>>
    /\ dates_seen = dates_of(files)
    /\ sql_cache = <<>>
    /\ summary = NoFile
    /\ started = <<>>
    /\ emitted = <<>>
    /\ log_file_path = <<"app.log">>
    /\ input_exists = TRUE
    /\ archive = NoFile
    /\ NormIdle
    /\ ParserIdle

NextMinute == GenerateCombinedSummary

SpecMinute == InitMinute /\ [][NextMinute]_vars

(***************************************************************************)
(* Properties.                                                             *)
(***************************************************************************)

\* the bucket store a handed record is routed to, and the day and the
\* statement the summary counts it under
DayOf(e) == <<e.timestamp[1]>>
StatementOf(e) == normalize(rstrip_semicolon(e.sql))
PairOf(e) == <<DayOf(e), StatementOf(e)>>
RunPairs == {PairOf(emitted[i]) : i \in 1..Len(emitted)}
RunCount(p) == Cardinality({i \in 1..Len(emitted) : PairOf(emitted[i]) = p})

\* the lines of the records handed over for store f, in order
RECURSIVE RoutedLines(_, _)
RoutedLines(f, i) ==
    IF i > Len(emitted) THEN <<>>
    ELSE (IF filename_of(emitted[i]) = f THEN bucket_line(emitted[i]) ELSE <<>>)
         \o RoutedLines(f, i + 1)

\* the flush at the end of the stream has run and no handover raised
PassComplete == pc \in {"close", "summary", "done"}

\* C1 (as claimed): the body of the record built from a statement line and its
\* continuation lines, up to the next timestamp line or the end of the input,
\* is the text after the marker and the continuation lines joined by single
\* spaces, without trailing semicolons.
C1_BodyIsJoinedGroup ==
    \A i \in 1..Len(emitted) :
        emitted[i].end \in {"timestamp", "eof"}
            => rstrip_semicolon(emitted[i].sql)
               = rstrip_semicolon(join(<<emitted[i].group.first>> \o emitted[i].group.more))

\* C2 (as claimed): the records handed to buffer_query are the records started,
\* in the order of their starting lines, none twice, and when parse ends every
\* record started has been handed over.
C2_ExactlyOnceInOrder ==
    /\ Len(emitted) <= Len(started)
    /\ \A i \in 1..Len(emitted) :
           i <= Len(started) => emitted[i].group.line = started[i].line
    /\ pc \in {"done", "raised"} => Len(emitted) = Len(started)

\* C3: once the assembly pass has flushed, every bucket store holds exactly the
\* lines of the records routed to it, each once and in routing order, and no
\* other store exists.
C3_StoresHoldRoutedLines ==
    PassComplete =>
        /\ DOMAIN files = {filename_of(emitted[i]) : i \in 1..Len(emitted)}
        /\ \A f \in DOMAIN files : files[f] = RoutedLines(f, 1)

\* C3 witness: a completed pass that routed more records to one store than the
\* flush threshold, so a threshold flush and the final flush both wrote to it
C3_Witness ==
    /\ pc = "done"
    /\ \E f \in DOMAIN files : Len(file_lines(files[f])) > buffer_size

\* C4: in a directory without earlier bucket stores the summary has one line
\* per (day, normalized statement) of the records of this run, with the number
\* of those records as its count, ordered by day and then by statement.
C4_DailyCounts ==
    pc = "done" =>
        /\ Len(summary) = Cardinality(RunPairs)
        /\ \A i \in 1..Len(summary) :
               \E p \in RunPairs : summary[i] = summary_line(p[1], p[2], RunCount(p))
        /\ \A i \in 1..(Len(summary) - 1) :
               \E p, q \in RunPairs :
                   /\ summary[i] = summary_line(p[1], p[2], RunCount(p))
                   /\ summary[i + 1] = summary_line(q[1], q[2], RunCount(q))
                   /\ key_less(p, q)

\* C4 witness: two records of one day that differ in a numeric literal are
\* counted in one line, beside a line of another day
C4_Witness ==
    /\ pc = "done"
    /\ Len(summary) = 2
    /\ summary[1] = summary_line(<<"2024-01-01">>, <<"select", " ", "$num">>, 2)
    /\ summary[2] = summary_line(<<"2024-01-02">>, <<"insert", " ", "a">>, 1)

\* C5 (as claimed): on every exit of parse, with or without an error, no line
\* is left in a buffer and every store opened has been closed exactly once.
C5_GuaranteedRelease ==
    pc \in {"done", "raised"} =>
        /\ \A f \in DOMAIN file_buffers : file_buffers[f] = <<>>
        /\ \A f \in output_files : f \in DOMAIN closed /\ closed[f] = 1
        /\ \A f \in DOMAIN files : files[f] = RoutedLines(f, 1)

\* C6 (as claimed): no sequence of input lines makes the assembly and routing
\* pass raise; the only error it can end with is a failure to read the input.
C6_NeverFatal == exc # "IndexError" /\ pc # "raised"

\* C7 (as claimed): every count of the summary is the number of records of
\* this run for its day and statement; lines that bucket stores held before
\* the run are counted nowhere.
C7_StaleNotCounted ==
    pc = "done" =>
        \A i \in 1..Len(summary) :
            \E p \in RunPairs : summary[i] = summary_line(p[1], p[2], RunCount(p))

\* C8 (as claimed): while a record is in progress, reading a non-empty line that
\* does not start with a timestamp appends it to the body after one space,
\* leaves the record in progress and hands nothing to the writer.
C8_ContinuationAppends ==
    [][(/\ pc = "read"
        /\ pos < Len(input)
        /\ pos' = pos + 1
        /\ current_query # None
        /\ strip(input[pos + 1]) # <<>>
        /\ timestamp_len(strip(input[pos + 1])) = 0)
       => (/\ current_query' # None
           /\ current_query'.sql = current_query.sql \o <<" ">> \o strip(input[pos + 1])
           /\ emitted' = emitted
           /\ pc' = "read")]_vars

\* the lines of a text: its fragments between newlines, but for an empty last one
whole_lines(t) ==
    LET parts == split_newline(t)
    IN IF parts[Len(parts)] = <<>> THEN SubSeq(parts, 1, Len(parts) - 1) ELSE parts

\* the counter of a text whose lines are processed in one go
counter_of(t) ==
    finalize_query(process_lines(whole_lines(t), ParserState(<<>>, <<>>), None),
                   None).counter

\* C9: at every moment the lines handed to process_line followed by the
\* fragment kept back are the newline split of the text read so far, so no
\* fragment cut by a chunk boundary is handed over on its own; at the end the
\* lines handed over are the newline split of the whole text without an empty
\* last fragment, and the counter is the one of the whole text, whatever the
\* chunk size.
C9_ChunkReassembly ==
    /\ ppc = "read" =>
          processed \o <<line_buffer>> = split_newline(SubSeq(text, 1, fpos))
    /\ ppc = "done" =>
          /\ processed = whole_lines(text)
          /\ counter = counter_of(text)

\* C9: a file of two lines read one symbol at a time has been processed and
\* a statement has been counted
C9_Witness ==
    /\ ppc = "done"
    /\ chunk_size = 1
    /\ Len(processed) = 2
    /\ \A i \in 1..2 : Len(processed[i]) > chunk_size
    /\ counter # <<>>

\* which symbols of a body lie in a quoted literal, quotes included, read
\* from left to right with '' inside a literal as an escaped quote
RECURSIVE literal_mask(_, _, _)
literal_mask(s, i, inside) ==
    IF i > Len(s) THEN <<>>
    ELSE IF ~inside
    THEN <<s[i] = "'">> \o literal_mask(s, i + 1, s[i] = "'")
    ELSE IF s[i] # "'" THEN <<TRUE>> \o literal_mask(s, i + 1, TRUE)
    ELSE IF i < Len(s) /\ s[i + 1] = "'"
    THEN <<TRUE, TRUE>> \o literal_mask(s, i + 2, TRUE)
    ELSE <<TRUE>> \o literal_mask(s, i + 1, FALSE)

\* every quote that opens a literal has its closing quote
RECURSIVE balanced(_, _, _)
balanced(s, i, inside) ==
    IF i > Len(s) THEN ~inside
    ELSE IF ~inside THEN balanced(s, i + 1, s[i] = "'")
    ELSE IF s[i] # "'" THEN balanced(s, i + 1, TRUE)
    ELSE IF i < Len(s) /\ s[i + 1] = "'" THEN balanced(s, i + 2, TRUE)
    ELSE balanced(s, i + 1, FALSE)

literal_count(s) ==
    LET mask == literal_mask(s, 1, FALSE)
    IN Cardinality({i \in 1..Len(s) : mask[i] /\ (i = 1 \/ ~mask[i - 1])})

\* the body with its quoted literals blanked out
outside_literals(s) ==
    LET mask == literal_mask(s, 1, FALSE)
    IN [i \in 1..Len(s) |-> IF mask[i] THEN " " ELSE s[i]]

\* the integer and decimal literals outside the quoted literals: digit runs,
\* or two digit runs around a point, between word boundaries
number_count(s) ==
    LET t == outside_literals(s)
        RECURSIVE count_from(_)
        count_from(i) ==
            IF i > Len(t) THEN 0
            ELSE IF float_end(t, i) > 0 THEN 1 + count_from(float_end(t, i) + 1)
            ELSE IF number_end(t, i) > 0 THEN 1 + count_from(number_end(t, i) + 1)
            ELSE count_from(i + 1)
    IN count_from(1)

occurrences(s, sym) == Cardinality({i \in 1..Len(s) : s[i] = sym})

\* normalize_sql on a body whose quotes are balanced: one $str for each
\* quoted literal, one $num for each number outside them
sql_placeholders_exact ==
    (npc = "done" /\ balanced(query_sql, 1, FALSE)) =>
        /\ occurrences(normalized, "$str") = literal_count(query_sql)
        /\ occurrences(normalized, "$num") = number_count(query_sql)

\* normalize_query on the same body: one ? for each quoted literal and each
\* number outside them
query_placeholders_exact ==
    (npc \notin {"idle", "query"} /\ balanced(query_sql, 1, FALSE)) =>
        occurrences(query_norm, "?") = literal_count(query_sql) + number_count(query_sql)

\* C10 (as claimed): for every body, each quoted literal, '' being an escaped
\* quote inside it, becomes exactly one string placeholder, no digit inside a
\* literal becomes a numeric placeholder, and each integer or decimal literal
\* outside the literals becomes exactly one numeric placeholder, in
\* normalize_sql and in normalize_query.
C10_QuotedDigitsProtected ==
    /\ sql_placeholders_exact
    /\ query_placeholders_exact

\* the body a handed record is stored and read back with
StoredBody(e) == strip(rstrip_semicolon(e.sql))

\* C11: in every state of a run each cache entry maps its body to the value
\* the uncached algorithm gives for it, and the algorithm has run exactly once
\* on each body in the cache and at most once on any body, however many
\* stored lines carry the body: a lookup that finds the body returns the
\* stored value.
C11_CacheConsistent ==
    /\ \A b \in DOMAIN sql_cache : sql_cache[b] = normalize(b)
    /\ DOMAIN sql_cache \subseteq DOMAIN computed
    /\ \A b \in DOMAIN computed : computed[b] = 1

\* C11: the summary has been generated from stores in which two lines carry
\* the same body, and the body is in the cache
C11_Witness ==
    /\ pc = "done"
    /\ \E i, j \in 1..Len(emitted) :
          /\ i < j
          /\ StoredBody(emitted[i]) = StoredBody(emitted[j])
          /\ StoredBody(emitted[i]) \in DOMAIN sql_cache
          /\ computed[StoredBody(emitted[i])] = 1

\* the summary line of the format "<bucketLabel> | <normalizedStatement> | <count>\n"
bare_count_line(label, sql, count) ==
    label \o <<" ", "|", " ">> \o sql \o <<" ", "|", " ", ToString(count), "\n">>

\* C12 (as claimed): every line of the summary store is the bucket label, the
\* normalized statement and the bare decimal count, separated by " | " and
\* ended by a newline.
C12_SummaryLineFormat ==
    pc = "done" =>
        \A i \in 1..Len(summary) :
            \E p \in RunPairs : summary[i] = bare_count_line(p[1], p[2], RunCount(p))

\* a keyword in lower case, whatever its case in the body
fold_case(c) ==
    CASE c \in {"with", "With", "WITH"} -> "with"
      [] c \in {"select", "SELECT"} -> "select"
      [] c \in {"insert", "INSERT"} -> "insert"
      [] OTHER -> c

\* the operation kind of a semicolon-stripped body, by its first token
kind_of(body) ==
    LET tokens == split(body)
        first == IF tokens = <<>> THEN <<>> ELSE [i \in 1..Len(tokens[1]) |-> fold_case(tokens[1][i])]
    IN IF first \in {<<"with">>, <<"select">>} THEN "SELECT"
       ELSE IF first = <<"insert">> THEN "INSERT"
       ELSE IF first = <<"update">> THEN "UPDATE"
       ELSE IF first = <<"delete">> THEN "DELETE"
       ELSE "OTHER"

\* the store named by the kind and the bucket label of a handed record
kind_store(e) == <<kind_of(rstrip_semicolon(e.sql)), "_">> \o DayOf(e) \o <<".log">>

\* the lines of the handed records whose kind and label name store f, in order
RECURSIVE KindLines(_, _)
KindLines(f, i) ==
    IF i > Len(emitted) THEN <<>>
    ELSE (IF kind_store(emitted[i]) = f THEN bucket_line(emitted[i]) ELSE <<>>)
         \o KindLines(f, i + 1)

\* what store f holds, written or still buffered
held(f) ==
    (IF f \in DOMAIN files THEN files[f] ELSE <<>>) \o writelines(buffer_of(file_buffers, f))

\* C13 (as claimed): every record handed over is held by the store named by
\* its kind and its bucket label, the kind being SELECT for a first token with
\* or select in any case, the token itself for insert, update and delete, and
\* OTHER for every other token and for a body without a token.
C13_KindClassification ==
    pc # "end" =>
        \A i \in 1..Len(emitted) :
            held(kind_store(emitted[i])) = KindLines(kind_store(emitted[i]), 1)

\* C14: a second aggregation over the same stores and dates, with the cache
\* the first one filled, leaves the summary store as the first one wrote it:
\* the store is written anew, not added to.
C14_AggregationIdempotent ==
    [][(pc = "done" /\ pc' = "again") => summary' = summary]_vars

\* C14: a second aggregation has run over stores of two days with a filled cache
C14_Witness ==
    /\ pc = "again"
    /\ Len(summary) >= 2
    /\ Cardinality(DOMAIN sql_cache) >= 2

\* the stored lines of a directory that have a timestamp and a body: (file, line)
PersistedLines ==
    {v \in UNION {{<<f, i>> : i \in 1..Len(file_lines(files[f]))} : f \in DOMAIN files} :
        find_from(file_lines(files[v[1]])[v[2]], <<" ", "|", " ">>, 1) > 0}

PersistedTimestamp(v) ==
    LET line == file_lines(files[v[1]])[v[2]]
    IN SubSeq(line, 1, find_from(line, <<" ", "|", " ">>, 1) - 1)

PersistedBody(v) ==
    LET line == file_lines(files[v[1]])[v[2]]
    IN strip(SubSeq(line, find_from(line, <<" ", "|", " ">>, 1) + 3, Len(line)))

\* a stored timestamp is a date, a space and a time of the calendar and the
\* clock, with or without fractional seconds and a zone suffix
ParsesAsDateTime(ts) ==
    /\ Len(ts) >= 3
    /\ ts[1] \in CalendarDates /\ ts[2] = " " /\ ts[3] \in ClockTimes
    /\ SubSeq(ts, 4, Len(ts)) \in {<<>>, <<".123">>, <<" ", "UTC">>, <<".123", " ", "UTC">>}

\* the timestamp truncated to the minute
MinuteLabel(ts) ==
    <<ts[1], " ",
      CASE ts[3] = "10:00:01" -> "10:00" [] ts[3] = "10:00:59" -> "10:00"
        [] ts[3] = "10:01:00" -> "10:01">>

MinutePairs ==
    {<<MinuteLabel(PersistedTimestamp(v)), normalize(PersistedBody(v))>> :
        v \in {u \in PersistedLines : ParsesAsDateTime(PersistedTimestamp(u))}}

MinuteCount(p) ==
    Cardinality({v \in PersistedLines :
        /\ ParsesAsDateTime(PersistedTimestamp(v))
        /\ <<MinuteLabel(PersistedTimestamp(v)), normalize(PersistedBody(v))>> = p})

\* C15: the summary by minute has one line for each (minute, normalized
\* statement) of the stored lines whose timestamp parses, its count being the
\* number of those lines; a stored line whose timestamp does not parse is in
\* no count and the lines after it are still counted.
C15_MinuteAggregation ==
    pc = "combined" =>
        /\ Len(summary) = Cardinality(MinutePairs)
        /\ {summary[i] : i \in 1..Len(summary)}
              = {summary_line(p[1], p[2], MinuteCount(p)) : p \in MinutePairs}

\* C15: a store with a line whose timestamp does not parse followed by two
\* lines of one minute that differ in their seconds has been aggregated
C15_Witness ==
    /\ pc = "combined"
    /\ \E f \in DOMAIN files :
          /\ Len(file_lines(files[f])) >= 2
          /\ ~ParsesAsDateTime(PersistedTimestamp(<<f, 1>>))
          /\ ParsesAsDateTime(PersistedTimestamp(<<f, 2>>))
    /\ \E f \in DOMAIN files, g \in DOMAIN files :
          \E i \in 1..Len(file_lines(files[f])), j \in 1..Len(file_lines(files[g])) :
              /\ <<f, i>> \in PersistedLines /\ <<g, j>> \in PersistedLines
              /\ ParsesAsDateTime(PersistedTimestamp(<<f, i>>))
              /\ ParsesAsDateTime(PersistedTimestamp(<<g, j>>))
              /\ PersistedTimestamp(<<f, i>>)[3] # PersistedTimestamp(<<g, j>>)[3]
              /\ MinuteLabel(PersistedTimestamp(<<f, i>>)) = MinuteLabel(PersistedTimestamp(<<g, j>>))

\* the lines of a text that are not empty or blank
lines_without_empty(t) == SelectSeq(whole_lines(t), LAMBDA l : strip(l) # <<>>)

\* C16 (as claimed): empty and blank lines are inert, so the counter of a file
\* is the counter of the same file with its empty and blank lines taken out.
C16_EmptyLinesInert ==
    ppc = "done" =>
        counter = finalize_query(process_lines(lines_without_empty(text),
                                               ParserState(<<>>, <<>>), None),
                                 None).counter

\* C17 (as claimed): when the cleanup step has run, the bucket stores and the
\* summary store are gone and the input log file still exists, however its
\* path is spelled and wherever it lies.
C17_CleanupKeepsInput ==
    pc = "end" =>
        /\ files = <<>>
        /\ summary = NoFile
        /\ input_exists

\* the minute stamps of the statement lines handed to process_line
StatementMinutes ==
    {<<processed[n][i], " ", minute_of(processed[n][i + 2])>> :
        <<n, i>> \in {p \in (1..Len(processed)) \X (1..3) :
                        /\ find_from(processed[p[1]], statement_marker, 1) > 0
                        /\ p[2] + 2 <= Len(processed[p[1]])
                        /\ processed[p[1]][p[2]] \in Dates
                        /\ processed[p[1]][p[2] + 1] = " "
                        /\ processed[p[1]][p[2] + 2] \in Times}}

\* C18 (as claimed): every key of the counter of parse_log_in_chunks has a
\* time, and the time is the timestamp, cut to the minute, of a statement line
\* of the file.
C18_KeyedByRecordMinute ==
    \A key \in DOMAIN counter :
        /\ key[1] # None
        /\ key[1] \in StatementMinutes

\* C19: in every state, so after every routing of a record, each buffer holds
\* fewer lines than the flush threshold and every store with a non-empty
\* buffer has a handle in output_files that has not been closed; once the
\* final flush has run no buffer holds a line.
C19_BufferBoundAndHandle ==
    /\ \A f \in DOMAIN file_buffers :
          /\ Len(file_buffers[f]) < buffer_size
          /\ file_buffers[f] # <<>> => (f \in output_files /\ f \notin DOMAIN closed)
    /\ pc \in {"close", "summary", "done", "again", "cleanup", "end"} =>
          \A f \in DOMAIN file_buffers : file_buffers[f] = <<>>

\* C19: a store that a threshold flush has written to holds a buffered line
\* again when the final flush is about to run
C19_Witness ==
    /\ pc = "flush"
    /\ \E f \in output_files :
          /\ f \in DOMAIN files /\ files[f] # <<>>
          /\ buffer_of(file_buffers, f) # <<>>

====
